---- MODULE Spec2Model ----
(***************************************************************************)
(* Name screening against local sanctions lists (African-screening).       *)
(*                                                                         *)
(* Strings are sequences of characters; a character is a one-element       *)
(* TLA+ string.  The fuzzy-matching functions of sanctions-service.ts are  *)
(* operators, the AfricaSanctions component is a state machine whose       *)
(* actions are its event handlers.                                         *)
(***************************************************************************)
EXTENDS Integers, Sequences, FiniteSets, TLC

(***************************************************************************)
(* Characters.  "e'" stands for the precomposed letter e-acute (U+00E9)    *)
(* and "'" for the combining acute accent (U+0301) that NFD splits off.    *)
(***************************************************************************)
LowerLetters ==
  <<"a", "b", "c", "d", "e", "f", "g", "h", "i", "j", "k", "l", "m",
    "n", "o", "p", "q", "r", "s", "t", "u", "v", "w", "x", "y", "z">>
UpperLetters ==
  <<"A", "B", "C", "D", "E", "F", "G", "H", "I", "J", "K", "L", "M",
    "N", "O", "P", "Q", "R", "S", "T", "U", "V", "W", "X", "Y", "Z">>
Lower == {LowerLetters[i] : i \in 1..26}
Upper == {UpperLetters[i] : i \in 1..26}
Digit == {"1"}
White == {" "}
Mark == {"'"}
Punct == {"-"}
Accented == {"e'"}

\* position of letter c in the alphabet
LetterIndex(letters, c) == CHOOSE i \in 1..26 : letters[i] = c

\* UTF-16 code unit of a space, a digit or an ASCII letter
CharCode(c) ==
  IF c = " " THEN 32
  ELSE IF c = "1" THEN 49
  ELSE IF c \in Upper THEN 64 + LetterIndex(UpperLetters, c)
  ELSE 96 + LetterIndex(LowerLetters, c)

\* String.prototype.toLowerCase on one character
ToLower(c) ==
  IF c \in Upper THEN LowerLetters[LetterIndex(UpperLetters, c)] ELSE c

Min2(x, y) == IF x <= y THEN x ELSE y
Max2(x, y) == IF x >= y THEN x ELSE y

\* for (k = lo; k <= hi; k++) acc = F(k, acc).  The range is split in halves
\* and the first half is evaluated before the second (the test left = left
\* asks for its value), which keeps the evaluation depth logarithmic.
RECURSIVE ForLoop(_, _, _, _)
ForLoop(F(_, _), acc, lo, hi) ==
  IF lo > hi THEN acc
  ELSE IF lo = hi THEN F(lo, acc)
  ELSE LET mid == (lo + hi) \div 2
           left == ForLoop(F, acc, lo, mid)
       IN IF left = left THEN ForLoop(F, left, mid + 1, hi) ELSE acc

\* canonical decomposition of one character
Decompose(c) == IF c = "e'" THEN <<"e", "'">> ELSE <<c>>

\* str.normalize("NFD"): the decompositions of the characters, in order
RECURSIVE NFD(_)
NFD(s) ==
  IF Len(s) = 0 THEN <<>>
  ELSE IF Len(s) = 1 THEN Decompose(s[1])
  ELSE LET mid == Len(s) \div 2
       IN NFD(SubSeq(s, 1, mid)) \o NFD(SubSeq(s, mid + 1, Len(s)))

\* str.replace(/[...]/g, ""): drop every character of the class `drop`
RemoveAll(s, drop) == SelectSeq(s, LAMBDA c : c \notin drop)

LowerCase(s) == [i \in 1..Len(s) |-> ToLower(s[i])]

\* the least element of a non-empty set of numbers
Least(S) == CHOOSE x \in S : \A y \in S : x <= y

\* s from its first character that is not white space
TrimLeft(s) ==
  LET kept == {i \in 1..Len(s) : s[i] \notin White}
  IN IF kept = {} THEN <<>> ELSE SubSeq(s, Least(kept), Len(s))

\* s up to its last character that is not white space
TrimRight(s) ==
  LET kept == {i \in 1..Len(s) : s[i] \notin White}
  IN IF kept = {} THEN <<>> ELSE SubSeq(s, 1, Len(s) + 1 - Least({Len(s) + 1 - i : i \in kept}))

\* String.prototype.trim
Trim(s) == TrimRight(TrimLeft(s))

\* the k-th smallest element of a set of numbers
Nth(S, k) == CHOOSE x \in S : Cardinality({y \in S : y < x}) = k - 1

\* str.split(/\s+/): the pieces between maximal runs of whitespace, with an
\* empty piece in front of a leading run and one behind a trailing run; an
\* empty string yields the one-element array [""]
SplitWhitespace(s) ==
  LET starts == {i \in 1..Len(s) : s[i] \notin White /\ (i = 1 \/ s[i - 1] \in White)}
      ends == {i \in 1..Len(s) : s[i] \notin White /\ (i = Len(s) \/ s[i + 1] \in White)}
      words == [k \in 1..Cardinality(starts) |-> SubSeq(s, Nth(starts, k), Nth(ends, k))]
      leading == IF s = <<>> \/ s[1] \in White THEN << <<>> >> ELSE <<>>
      trailing == IF s # <<>> /\ s[Len(s)] \in White THEN << <<>> >> ELSE <<>>
  IN leading \o words \o trailing

\* a < b in the code-unit order Array.prototype.sort uses by default
StrLess(a, b) ==
  LET differ == {i \in 1..Min2(Len(a), Len(b)) : a[i] # b[i]}
  IN IF differ = {} THEN Len(a) < Len(b)
     ELSE LET k == Least(differ) IN CharCode(a[k]) < CharCode(b[k])

\* insert token t after every token that is not greater than it
RECURSIVE InsertToken(_, _)
InsertToken(t, ts) ==
  IF ts = <<>> THEN <<t>>
  ELSE IF StrLess(t, Head(ts)) THEN <<t>> \o ts
       ELSE <<Head(ts)>> \o InsertToken(t, Tail(ts))

\* Array.prototype.sort() with the default comparison
RECURSIVE SortTokens(_)
SortTokens(ts) ==
  IF ts = <<>> THEN <<>>
  ELSE InsertToken(ts[Len(ts)], SortTokens(SubSeq(ts, 1, Len(ts) - 1)))

\* Array.prototype.join(" ")
RECURSIVE JoinSpace(_)
JoinSpace(ts) ==
  IF ts = <<>> THEN <<>>
  ELSE IF Len(ts) = 1 THEN ts[1]
  ELSE ts[1] \o <<" ">> \o JoinSpace(Tail(ts))

\* the complement of the class [a-zA-Z0-9\s]
NotAlnumSpace == (Punct \cup Accented \cup Mark) \ (Lower \cup Upper \cup Digit \cup White)

\* the value of a `str` argument that is missing: it stands for the
\* JavaScript value undefined and is a string no text can be
undefinedString == <<"undefined">>

\* the argument undefined taken for the text "undefined"
normalizeStringUndefinedAsText(str) ==
  IF str = <<>> THEN <<>>
  ELSE JoinSpace(SortTokens(SplitWhitespace(Trim(LowerCase(
         RemoveAll(RemoveAll(
           NFD(IF str = undefinedString
               THEN <<"u", "n", "d", "e", "f", "i", "n", "e", "d">>
               ELSE str), Mark), NotAlnumSpace))))))

\* the tokens left in the order of the input
normalizeStringNoSort(str) ==
  IF str = undefinedString \/ str = <<>> THEN <<>>
  ELSE JoinSpace(SplitWhitespace(Trim(LowerCase(
         RemoveAll(RemoveAll(NFD(str), Mark), NotAlnumSpace)))))

\* the lowercasing done on the joined key, after the sort
normalizeStringLowerLast(str) ==
  IF str = undefinedString \/ str = <<>> THEN <<>>
  ELSE LowerCase(JoinSpace(SortTokens(SplitWhitespace(Trim(
         RemoveAll(RemoveAll(NFD(str), Mark), NotAlnumSpace))))))

\* the trim left out
normalizeStringNoTrim(str) ==
  IF str = undefinedString \/ str = <<>> THEN <<>>
  ELSE JoinSpace(SortTokens(SplitWhitespace(LowerCase(
         RemoveAll(RemoveAll(NFD(str), Mark), NotAlnumSpace)))))

\* !str holds of undefined and of the empty string
normalizeString(str) ==
  IF str = undefinedString \/ str = <<>> THEN <<>>
  ELSE JoinSpace(SortTokens(SplitWhitespace(Trim(LowerCase(
         RemoveAll(RemoveAll(NFD(str), Mark), NotAlnumSpace))))))

\* the deletion left out of the minimum
levenshteinDistanceNoDeletion(a, b) ==
  LET firstRow == [j \in 1..(Len(a) + 1) |-> j - 1]
      NextCell(i, prev, j, cur) ==
        Append(cur,
          IF b[i] = a[j] THEN prev[j]
          ELSE Min2(prev[j] + 1, cur[j] + 1))
      NextRow(i, matrix) ==
        Append(matrix,
               ForLoop(LAMBDA j, cur : NextCell(i, matrix[i], j, cur), <<i>>, 1, Len(a)))
  IN ForLoop(NextRow, <<firstRow>>, 1, Len(b))[Len(b) + 1][Len(a) + 1]

\* on equal characters, the cell above copied instead of the diagonal one
levenshteinDistanceMatchAbove(a, b) ==
  LET firstRow == [j \in 1..(Len(a) + 1) |-> j - 1]
      NextCell(i, prev, j, cur) ==
        Append(cur,
          IF b[i] = a[j] THEN prev[j + 1]
          ELSE Min2(prev[j] + 1, Min2(cur[j] + 1, prev[j + 1] + 1)))
      NextRow(i, matrix) ==
        Append(matrix,
               ForLoop(LAMBDA j, cur : NextCell(i, matrix[i], j, cur), <<i>>, 1, Len(a)))
  IN ForLoop(NextRow, <<firstRow>>, 1, Len(b))[Len(b) + 1][Len(a) + 1]

\* the first column of the matrix filled with zeros
levenshteinDistanceFirstColumnZero(a, b) ==
  LET firstRow == [j \in 1..(Len(a) + 1) |-> j - 1]
      NextCell(i, prev, j, cur) ==
        Append(cur,
          IF b[i] = a[j] THEN prev[j]
          ELSE Min2(prev[j] + 1, Min2(cur[j] + 1, prev[j + 1] + 1)))
      NextRow(i, matrix) ==
        Append(matrix,
               ForLoop(LAMBDA j, cur : NextCell(i, matrix[i], j, cur), <<0>>, 1, Len(a)))
  IN ForLoop(NextRow, <<firstRow>>, 1, Len(b))[Len(b) + 1][Len(a) + 1]

\* the substitution left out of the minimum
levenshteinDistanceNoSubstitution(a, b) ==
  LET firstRow == [j \in 1..(Len(a) + 1) |-> j - 1]
      NextCell(i, prev, j, cur) ==
        Append(cur,
          IF b[i] = a[j] THEN prev[j]
          ELSE Min2(cur[j] + 1, prev[j + 1] + 1))
      NextRow(i, matrix) ==
        Append(matrix,
               ForLoop(LAMBDA j, cur : NextCell(i, matrix[i], j, cur), <<i>>, 1, Len(a)))
  IN ForLoop(NextRow, <<firstRow>>, 1, Len(b))[Len(b) + 1][Len(a) + 1]

\* The matrix is a sequence of rows and a row a sequence of cells:
\* matrix[i][j] of the code is matrix[i + 1][j + 1] here.
levenshteinDistance(a, b) ==
  LET \* matrix[0][j] = j
      firstRow == [j \in 1..(Len(a) + 1) |-> j - 1]
      \* the inner loop body: cell j of row i, appended to the cells 0..j-1
      NextCell(i, prev, j, cur) ==
        Append(cur,
          IF b[i] = a[j] THEN prev[j]
          ELSE Min2(prev[j] + 1, Min2(cur[j] + 1, prev[j + 1] + 1)))
      \* the outer loop body: row i, which starts as [i], appended to rows 0..i-1
      NextRow(i, matrix) ==
        Append(matrix,
               ForLoop(LAMBDA j, cur : NextCell(i, matrix[i], j, cur), <<i>>, 1, Len(a)))
  IN ForLoop(NextRow, <<firstRow>>, 1, Len(b))[Len(b) + 1][Len(a) + 1]

(***************************************************************************)
(* IEEE 754 double-precision arithmetic of                                 *)
(*   Math.round((1 - distance / maxLength) * 100).                         *)
(* A finite non-negative double is held in fixed point as a natural number *)
(* of units 2^-FracBits, written little-endian in limbs of LimbBits bits   *)
(* (bit b, counted from 0, has weight 2^(b - FracBits)).  Every operation  *)
(* computes its exact result and rounds it to Mantissa significant bits,   *)
(* ties to even, as the hardware does.                                     *)
(***************************************************************************)
Mantissa == 53
\* keys of up to 2^MaxExp characters are covered
MaxExp == 8
LimbBits == 12
FracBits == Mantissa + MaxExp
NumLimbs == (FracBits + 8) \div LimbBits + 1

RECURSIVE Pow2(_)
Pow2(k) == IF k = 0 THEN 1 ELSE 2 * Pow2(k - 1)

Base == Pow2(LimbBits)

\* the number whose l-th limb is F(l), as a sequence
Limbs(F(_)) == SubSeq([l \in 1..NumLimbs |-> F(l)], 1, NumLimbs)

\* bit b of x
Bit(x, b) == (x[b \div LimbBits + 1] \div Pow2(b % LimbBits)) % 2

\* the number 2^b units
UnitBit(b) == Limbs(LAMBDA l : IF l = b \div LimbBits + 1 THEN Pow2(b % LimbBits) ELSE 0)

\* the double 1.0
One == UnitBit(FracBits)

RECURSIVE AddFrom(_, _, _, _)
AddFrom(x, y, carry, acc) ==
  LET l == Len(acc) + 1 IN
  IF l > NumLimbs THEN acc
  ELSE AddFrom(x, y, (x[l] + y[l] + carry) \div Base,
               Append(acc, (x[l] + y[l] + carry) % Base))

\* exact sum
Add(x, y) == AddFrom(x, y, 0, <<>>)

\* exact difference x - y for x >= y, by complement
Sub(x, y) == AddFrom(x, Limbs(LAMBDA l : Base - 1 - y[l]), 1, <<>>)

RECURSIVE MulFrom(_, _, _, _)
MulFrom(x, n, carry, acc) ==
  LET l == Len(acc) + 1 IN
  IF l > NumLimbs THEN acc
  ELSE MulFrom(x, n, (x[l] * n + carry) \div Base,
               Append(acc, (x[l] * n + carry) % Base))

\* exact product of x and a small natural n
MulSmall(x, n) == MulFrom(x, n, 0, <<>>)

RECURSIVE LimbLen(_)
LimbLen(v) == IF v = 0 THEN 0 ELSE 1 + LimbLen(v \div 2)

\* number of significant bits of x, 0 for zero
RECURSIVE BitLen(_, _)
BitLen(x, l) ==
  IF l = 0 THEN 0
  ELSE IF x[l] # 0 THEN (l - 1) * LimbBits + LimbLen(x[l])
  ELSE BitLen(x, l - 1)

\* x with its k low bits cleared
ClearLow(x, k) ==
  Limbs(LAMBDA l :
    IF l < k \div LimbBits + 1 THEN 0
    ELSE IF l = k \div LimbBits + 1
         THEN (x[l] \div Pow2(k % LimbBits)) * Pow2(k % LimbBits)
         ELSE x[l])

\* round to nearest, ties to even, at Mantissa significant bits; `inexact`
\* tells that the exact value lies strictly above x
RoundNearestEven(x, inexact) ==
  LET k == BitLen(x, NumLimbs) - Mantissa IN
  IF k <= 0 THEN x
  ELSE LET trunc == ClearLow(x, k)
           sticky == inexact \/ ClearLow(x, k - 1) # x
           up == Bit(x, k - 1) = 1 /\ (sticky \/ Bit(x, k) = 1)
       IN IF up THEN Add(trunc, UnitBit(k)) ELSE trunc

\* long division of the number with limbs num[1..l] (most significant
\* last) by m: the quotient limbs, and the final remainder
RECURSIVE DivFrom(_, _, _, _, _)
DivFrom(num, m, l, rem, acc) ==
  IF l = 0 THEN [quot |-> acc, rem |-> rem]
  ELSE DivFrom(num, m, l - 1, (rem * Base + num[l]) % m,
               <<(rem * Base + num[l]) \div m>> \o acc)

\* the double nearest to d / m, for integers 0 < d <= m <= 2^MaxExp
FloatDivide(d, m) ==
  LET q == DivFrom(MulSmall(One, d), m, NumLimbs, 0, <<>>)
  IN RoundNearestEven(q.quot, q.rem # 0)

\* the double 1 - q, for q <= 1
OneMinus(q) == RoundNearestEven(Sub(One, q), FALSE)

\* the double x * 100
Times100(x) == RoundNearestEven(MulSmall(x, 100), FALSE)

RECURSIVE IntPart(_, _)
IntPart(x, j) ==
  IF j = 8 THEN 0 ELSE Bit(x, FracBits + j) * Pow2(j) + IntPart(x, j + 1)

\* Math.round: the nearest integer, a fraction of exactly one half going up
MathRound(x) == IntPart(x, 0) + Bit(x, FracBits - 1)

\* the two operands of the division exchanged
SimilarityPercentSwapped(distance, maxLength) ==
  100 - (100 * maxLength) \div distance

\* Math.round((1 - distance / maxLength) * 100)
SimilarityPercent(distance, maxLength) ==
  MathRound(Times100(OneMinus(FloatDivide(distance, maxLength))))

\* the two negations of the test for empty keys left out
calculateSimilarityNegationDropped(s1, s2) ==
  LET norm1 == normalizeString(s1)
      norm2 == normalizeString(s2)
  IN IF norm1 # <<>> \/ norm2 # <<>> THEN 0
     ELSE IF norm1 = norm2 THEN 100
     ELSE SimilarityPercent(levenshteinDistance(norm1, norm2),
                            Max2(Len(norm1), Len(norm2)))

\* the second argument compared as it is given, without normalization
calculateSimilarityRawSecond(s1, s2) ==
  LET norm1 == normalizeString(s1)
      norm2 == s2
  IN IF norm1 = <<>> \/ norm2 = <<>> THEN 0
     ELSE IF norm1 = norm2 THEN 100
     ELSE SimilarityPercent(levenshteinDistance(norm1, norm2),
                            Max2(Len(norm1), Len(norm2)))

\* the test for equal keys made before the test for empty keys
calculateSimilarityEqualFirst(s1, s2) ==
  LET norm1 == normalizeString(s1)
      norm2 == normalizeString(s2)
  IN IF norm1 = norm2 THEN 100
     ELSE IF norm1 = <<>> \/ norm2 = <<>> THEN 0
     ELSE SimilarityPercent(levenshteinDistance(norm1, norm2),
                            Max2(Len(norm1), Len(norm2)))

calculateSimilarity(s1, s2) ==
  LET norm1 == normalizeString(s1)
      norm2 == normalizeString(s2)
  IN IF norm1 = <<>> \/ norm2 = <<>> THEN 0
     ELSE IF norm1 = norm2 THEN 100
     ELSE LET distance == levenshteinDistance(norm1, norm2)
              maxLength == Max2(Len(norm1), Len(norm2))
          IN IF maxLength = 0 THEN 100
             ELSE SimilarityPercent(distance, maxLength)

\* the first alias taken for the best one
MaxAliasScoreFirstOnly(query, aliases) == calculateSimilarity(query, aliases[1])

\* Math.max(...aliases.map(alias => calculateSimilarity(query, alias)))
RECURSIVE MaxAliasScore(_, _)
MaxAliasScore(query, aliases) ==
  IF Len(aliases) = 1 THEN calculateSimilarity(query, aliases[1])
  ELSE Max2(calculateSimilarity(query, Head(aliases)),
            MaxAliasScore(query, Tail(aliases)))

\* the value of an `aliases` argument that is missing: it stands for the
\* JavaScript value undefined and is an array no data file can hold
undefined == << <<"undefined", "undefined">> >>

\* a tie between the name and the best alias given to the alias
getBestMatchScoreTieToAlias(query, name, aliases) ==
  LET nameScore == calculateSimilarity(query, name)
      maxAliasScore ==
        IF aliases # undefined /\ Len(aliases) > 0
        THEN MaxAliasScore(query, aliases) ELSE 0
  IN [score |-> Max2(nameScore, maxAliasScore),
      matchedOn |-> IF maxAliasScore >= nameScore THEN "Alias" ELSE "Name"]

getBestMatchScore(query, name, aliases) ==
  LET nameScore == calculateSimilarity(query, name)
      maxAliasScore ==
        IF aliases # undefined /\ Len(aliases) > 0
        THEN MaxAliasScore(query, aliases) ELSE 0
  IN [score |-> Max2(nameScore, maxAliasScore),
      matchedOn |-> IF maxAliasScore > nameScore THEN "Alias" ELSE "Name"]

(***************************************************************************)
(* The AfricaSanctions component.                                          *)
(***************************************************************************)
VARIABLES
  searchParams,         \* [query, targetType, sourceCountries, fuzzyThreshold]
  hasSearched,
  matches,              \* sequence of [type, item, score, matchedOn]
  isGeneratingPdf,
  comment,
  screenerName,
  showValidationError,
  persons,              \* data of the 'sanctions-persons' query ([] until loaded)
  entities,             \* data of the 'sanctions-entities' query
  loadingPersons,
  loadingEntities,
  lastCall,             \* the event handled last
  notice,               \* the message that event showed to the user, or "none"
  scanned,              \* number of subjects that event passed to getBestMatchScore
  document,             \* <<>>, or <<report>> when that event saved a PDF file
  simArgs,              \* arguments of a call of calculateSimilarity
  simResult,            \* <<>> before the call returns, <<value>> after
  simSwapped,           \* the same for the call with the arguments exchanged
  normArg,              \* argument of a call of normalizeString
  normResult,           \* <<>> before the call returns, <<key>> after
  normAgain,            \* the same for the call on the key returned
  bestArgs,             \* [query, name, aliases] of a call of getBestMatchScore
  bestResult,           \* <<>> before the call returns, <<[score, matchedOn]>> after
  levArgs,              \* three strings given to levenshteinDistance in pairs
  levResult             \* <<>>, or <<d>> with d[i][j] the distance returned for
                        \* the i-th and the j-th string

uiVars == <<searchParams, hasSearched, matches, isGeneratingPdf, comment,
            screenerName, showValidationError, persons, entities,
            loadingPersons, loadingEntities, lastCall, notice, scanned, document>>
simVars == <<simArgs, simResult, simSwapped>>
normVars == <<normArg, normResult, normAgain>>
bestVars == <<bestArgs, bestResult>>
levVars == <<levArgs, levResult>>
fnVars == <<simVars, normVars, bestVars, levVars>>
vars == <<uiVars, fnVars>>

\* Object.keys(COUNTRY_CODES)
CountryKeys == <<"CI", "BF", "ML", "NE">>
TargetTypes == {"All", "Person", "Entity"}

\* contents of sanctions-persons.json and sanctions-entities.json
PersonsA ==
  << [id |-> 1, source_country |-> "BF", full_name |-> <<"A", " ", "b">>,
      aliases |-> << <<"a", "b", "c">> >>],
     [id |-> 2, source_country |-> "CI", full_name |-> <<"a", "b", "e'">>,
      aliases |-> << >>],
     [id |-> 3, source_country |-> "BF", full_name |-> <<"a", "b", "c">>,
      aliases |-> << >>] >>
PersonsB ==
  << [id |-> 1, source_country |-> "ML", full_name |-> <<"a", "b">>,
      aliases |-> << <<"-">> >>] >>
EntitiesA ==
  << [id |-> 1, source_country |-> "ML", name |-> <<"a", "b">>,
      aliases |-> << <<"b", " ", "a">> >>],
     [id |-> 2, source_country |-> "BF", name |-> <<"a", "-", "b", "c">>,
      aliases |-> << >>] >>
PersonLists == {PersonsA, PersonsB}
EntityLists == {EntitiesA}

\* what the user types in the name field, and the slider positions tried
Queries == {<<>>, <<" ">>, <<"a", "b", "c">>, <<"b", " ", "a">>}
Thresholds == {67, 68, 70, 100}

InitialSearchParams ==
  [query |-> <<>>, targetType |-> "All", sourceCountries |-> CountryKeys,
   fuzzyThreshold |-> 70]

\* Array.prototype.includes
Includes(arr, x) == \E i \in 1..Len(arr) : arr[i] = x

\* Array.prototype.filter(c => c !== code)
RECURSIVE Without(_, _)
Without(arr, code) ==
  IF arr = <<>> THEN <<>>
  ELSE IF Head(arr) = code THEN Without(Tail(arr), code)
       ELSE <<Head(arr)>> \o Without(Tail(arr), code)

isLoading == loadingPersons \/ loadingEntities

\* !searchParams.query.trim()
QueryIsBlank(sp) == Trim(sp.query) = <<>>

\* the check for an empty selection left out
NoListsSelectedNever(sp) == FALSE

\* searchParams.sourceCountries.length === 0
NoListsSelected(sp) == Len(sp.sourceCountries) = 0

\* the country test left out
CountrySelectedAlways(sp, country) == TRUE

\* the list passes the `continue` test of the scan loops
CountrySelected(sp, country) == Includes(sp.sourceCountries, country)

PersonsWanted(sp) == sp.targetType = "All" \/ sp.targetType = "Person"
EntitiesWanted(sp) == sp.targetType = "All" \/ sp.targetType = "Entity"

\* an exclusive boundary
ReachesThresholdStrict(score, threshold) == score > threshold

\* the comparison turned round
ReachesThresholdInverted(score, threshold) == score <= threshold

\* the threshold test left out
ReachesThresholdAlways(score, threshold) == TRUE

\* score >= searchParams.fuzzyThreshold
ReachesThreshold(score, threshold) == score >= threshold

\* aliases || []
AliasesOrEmpty(aliases) == IF aliases = undefined THEN <<>> ELSE aliases

\* one pass of the loop over persons: results.push(...) when the person is kept
ScanPerson(sp, person, results) ==
  IF ~CountrySelected(sp, person.source_country) THEN results
  ELSE LET best == getBestMatchScore(sp.query, person.full_name,
                                     AliasesOrEmpty(person.aliases))
       IN IF ReachesThreshold(best.score, sp.fuzzyThreshold)
          THEN Append(results, [type |-> "Person", item |-> person,
                                score |-> best.score, matchedOn |-> best.matchedOn])
          ELSE results

\* one pass of the loop over entities
ScanEntity(sp, entity, results) ==
  IF ~CountrySelected(sp, entity.source_country) THEN results
  ELSE LET best == getBestMatchScore(sp.query, entity.name,
                                     AliasesOrEmpty(entity.aliases))
       IN IF ReachesThreshold(best.score, sp.fuzzyThreshold)
          THEN Append(results, [type |-> "Entity", item |-> entity,
                                score |-> best.score, matchedOn |-> best.matchedOn])
          ELSE results

\* `results` when the two scan loops are over
ScanResults(sp, ps, es) ==
  LET afterPersons ==
        IF PersonsWanted(sp)
        THEN ForLoop(LAMBDA k, r : ScanPerson(sp, ps[k], r), <<>>, 1, Len(ps))
        ELSE <<>>
  IN IF EntitiesWanted(sp)
     THEN ForLoop(LAMBDA k, r : ScanEntity(sp, es[k], r), afterPersons, 1, Len(es))
     ELSE afterPersons

\* number of calls of getBestMatchScore the two loops make
ScanCount(sp, ps, es) ==
  (IF PersonsWanted(sp)
   THEN Cardinality({k \in 1..Len(ps) : CountrySelected(sp, ps[k].source_country)})
   ELSE 0)
  + (IF EntitiesWanted(sp)
     THEN Cardinality({k \in 1..Len(es) : CountrySelected(sp, es[k].source_country)})
     ELSE 0)

\* an insertion that puts m before the elements of equal score
RECURSIVE InsertByScoreUnstable(_, _)
InsertByScoreUnstable(m, sorted) ==
  IF sorted = <<>> THEN <<m>>
  ELSE IF m.score >= Head(sorted).score THEN <<m>> \o sorted
       ELSE <<Head(sorted)>> \o InsertByScoreUnstable(m, Tail(sorted))

\* insert m behind every element the comparator does not order after it
RECURSIVE InsertByScore(_, _)
InsertByScore(m, sorted) ==
  IF sorted = <<>> THEN <<m>>
  ELSE IF m.score > Head(sorted).score THEN <<m>> \o sorted
       ELSE <<Head(sorted)>> \o InsertByScore(m, Tail(sorted))

\* the sort left out
SortByScoreNone(results) == results

\* results.sort((a, b) => b.score - a.score); Array.prototype.sort is stable
SortByScore(results) ==
  ForLoop(LAMBDA k, sorted : InsertByScore(results[k], sorted), <<>>, 1, Len(results))

\* no call of calculateSimilarity, normalizeString, getBestMatchScore or
\* levenshteinDistance under observation
SimIdle == simArgs = <<<<>>, <<>>>> /\ simResult = <<>> /\ simSwapped = <<>>
NormIdle == normArg = <<>> /\ normResult = <<>> /\ normAgain = <<>>
BestIdle ==
  /\ bestArgs = [query |-> <<>>, name |-> <<>>, aliases |-> <<>>]
  /\ bestResult = <<>>
LevIdle == levArgs = <<<<>>, <<>>, <<>>>> /\ levResult = <<>>

\* the component when it mounts
Mounted ==
  /\ searchParams = InitialSearchParams
  /\ hasSearched = FALSE
  /\ matches = <<>>
  /\ isGeneratingPdf = FALSE
  /\ comment = <<>>
  /\ screenerName = <<>>
  /\ showValidationError = FALSE
  /\ persons = <<>>
  /\ entities = <<>>
  /\ loadingPersons = TRUE
  /\ loadingEntities = TRUE
  /\ lastCall = "mount"
  /\ notice = "none"
  /\ scanned = 0
  /\ document = <<>>

Init == Mounted /\ SimIdle /\ NormIdle /\ BestIdle /\ LevIdle

\* queryFn of the persons query resolves
FetchPersonsDone ==
  /\ loadingPersons
  /\ \E data \in PersonLists : persons' = data
  /\ loadingPersons' = FALSE
  /\ lastCall' = "fetch" /\ notice' = "none" /\ scanned' = 0 /\ document' = <<>>
  /\ UNCHANGED <<searchParams, hasSearched, matches, isGeneratingPdf, comment,
                 screenerName, showValidationError, entities, loadingEntities,
                 fnVars>>

\* queryFn of the entities query resolves
FetchEntitiesDone ==
  /\ loadingEntities
  /\ \E data \in EntityLists : entities' = data
  /\ loadingEntities' = FALSE
  /\ lastCall' = "fetch" /\ notice' = "none" /\ scanned' = 0 /\ document' = <<>>
  /\ UNCHANGED <<searchParams, hasSearched, matches, isGeneratingPdf, comment,
                 screenerName, showValidationError, persons, loadingPersons,
                 fnVars>>

\* what every handler of a form field leaves alone
FormEdit ==
  /\ ~isLoading
  /\ lastCall' = "edit" /\ notice' = "none" /\ scanned' = 0 /\ document' = <<>>
  /\ UNCHANGED <<hasSearched, matches, isGeneratingPdf, comment, screenerName,
                 showValidationError, persons, entities, loadingPersons,
                 loadingEntities, fnVars>>

\* onChange of the name input
SetQuery ==
  /\ \E q \in Queries : searchParams' = [searchParams EXCEPT !.query = q]
  /\ FormEdit

\* onChange of a target-type radio button
SetTargetType ==
  /\ \E t \in TargetTypes : searchParams' = [searchParams EXCEPT !.targetType = t]
  /\ FormEdit

\* onChange of the FuzzySlider
SetFuzzyThreshold ==
  /\ \E val \in Thresholds : searchParams' = [searchParams EXCEPT !.fuzzyThreshold = val]
  /\ FormEdit

toggleCountry ==
  /\ \E code \in {CountryKeys[i] : i \in 1..Len(CountryKeys)} :
       searchParams' =
         [searchParams EXCEPT !.sourceCountries =
            IF Includes(@, code) THEN Without(@, code) ELSE Append(@, code)]
  /\ FormEdit

setAllCountries ==
  /\ \E selectAll \in BOOLEAN :
       searchParams' =
         [searchParams EXCEPT !.sourceCountries = IF selectAll THEN CountryKeys ELSE <<>>]
  /\ FormEdit

\* the persons array reversed in place by a run that scans
handleSearchReversingPersons ==
  /\ ~isLoading
  /\ lastCall' = IF searchParams.query = <<>> THEN "invalidSubmit" ELSE "handleSearch"
  /\ document' = <<>>
  /\ UNCHANGED <<searchParams, isGeneratingPdf, entities,
                 loadingPersons, loadingEntities, fnVars>>
  /\ IF searchParams.query = <<>>
     THEN /\ notice' = "required" /\ scanned' = 0
          /\ UNCHANGED <<hasSearched, matches, comment, screenerName,
                         showValidationError, persons>>
     ELSE IF QueryIsBlank(searchParams)
     THEN /\ notice' = "none" /\ scanned' = 0
          /\ UNCHANGED <<hasSearched, matches, comment, screenerName,
                         showValidationError, persons>>
     ELSE IF NoListsSelected(searchParams)
     THEN /\ notice' = "selectAtLeastOne" /\ scanned' = 0
          /\ UNCHANGED <<hasSearched, matches, comment, screenerName,
                         showValidationError, persons>>
     ELSE /\ persons' = [k \in 1..Len(persons) |-> persons[Len(persons) + 1 - k]]
          /\ matches' = SortByScore(ScanResults(searchParams, persons', entities))
          /\ scanned' = ScanCount(searchParams, persons, entities)
          /\ notice' = "none"
          /\ hasSearched' = TRUE
          /\ comment' = <<>>
          /\ screenerName' = <<>>
          /\ showValidationError' = FALSE

\* the report fields and the error flag left as they are by a run that scans
handleSearchKeepingReport ==
  /\ ~isLoading
  /\ lastCall' = IF searchParams.query = <<>> THEN "invalidSubmit" ELSE "handleSearch"
  /\ document' = <<>>
  /\ UNCHANGED <<searchParams, isGeneratingPdf, persons, entities, comment,
                 screenerName, showValidationError, loadingPersons,
                 loadingEntities, fnVars>>
  /\ IF searchParams.query = <<>>
     THEN /\ notice' = "required" /\ scanned' = 0
          /\ UNCHANGED <<hasSearched, matches>>
     ELSE IF QueryIsBlank(searchParams)
     THEN /\ notice' = "none" /\ scanned' = 0
          /\ UNCHANGED <<hasSearched, matches>>
     ELSE IF NoListsSelected(searchParams)
     THEN /\ notice' = "selectAtLeastOne" /\ scanned' = 0
          /\ UNCHANGED <<hasSearched, matches>>
     ELSE /\ matches' = SortByScore(ScanResults(searchParams, persons, entities))
          /\ scanned' = ScanCount(searchParams, persons, entities)
          /\ notice' = "none"
          /\ hasSearched' = TRUE

\* submit of the search form.  The name input is `required`: with an empty
\* value the browser reports the field and does not dispatch the submit event.
handleSearch ==
  /\ ~isLoading
  /\ lastCall' = IF searchParams.query = <<>> THEN "invalidSubmit" ELSE "handleSearch"
  /\ document' = <<>>
  /\ UNCHANGED <<searchParams, isGeneratingPdf, persons, entities,
                 loadingPersons, loadingEntities, fnVars>>
  /\ IF searchParams.query = <<>>
     THEN /\ notice' = "required" /\ scanned' = 0
          /\ UNCHANGED <<hasSearched, matches, comment, screenerName, showValidationError>>
     ELSE IF QueryIsBlank(searchParams)
     THEN /\ notice' = "none" /\ scanned' = 0
          /\ UNCHANGED <<hasSearched, matches, comment, screenerName, showValidationError>>
     ELSE IF NoListsSelected(searchParams)
     THEN /\ notice' = "selectAtLeastOne" /\ scanned' = 0
          /\ UNCHANGED <<hasSearched, matches, comment, screenerName, showValidationError>>
     ELSE /\ matches' = SortByScore(ScanResults(searchParams, persons, entities))
          /\ scanned' = ScanCount(searchParams, persons, entities)
          /\ notice' = "none"
          /\ hasSearched' = TRUE
          /\ comment' = <<>>
          /\ screenerName' = <<>>
          /\ showValidationError' = FALSE

\* the two report fields and the error flag left as they are
handleResetKeepingReport ==
  /\ ~isLoading
  /\ hasSearched
  /\ searchParams' = InitialSearchParams
  /\ hasSearched' = FALSE
  /\ matches' = <<>>
  /\ lastCall' = "handleReset" /\ notice' = "none" /\ scanned' = 0 /\ document' = <<>>
  /\ UNCHANGED <<isGeneratingPdf, comment, screenerName, showValidationError,
                 persons, entities, loadingPersons, loadingEntities, fnVars>>

\* click on the reset button, which is rendered once a search has run
handleReset ==
  /\ ~isLoading
  /\ hasSearched
  /\ searchParams' = InitialSearchParams
  /\ hasSearched' = FALSE
  /\ matches' = <<>>
  /\ comment' = <<>>
  /\ screenerName' = <<>>
  /\ showValidationError' = FALSE
  /\ lastCall' = "handleReset" /\ notice' = "none" /\ scanned' = 0 /\ document' = <<>>
  /\ UNCHANGED <<isGeneratingPdf, persons, entities, loadingPersons,
                 loadingEntities, fnVars>>

\* what the analyst types in the two fields of the report section
ReportTexts == {<<>>, <<" ">>, <<"o", "k">>}

\* what the handlers of the two report fields leave alone; the fields are
\* rendered with the results
ReportEdit ==
  /\ hasSearched
  /\ lastCall' = "editReport" /\ notice' = "none" /\ scanned' = 0 /\ document' = <<>>
  /\ UNCHANGED <<searchParams, hasSearched, matches, isGeneratingPdf,
                 showValidationError, persons, entities, loadingPersons,
                 loadingEntities, fnVars>>

\* onChange of the analyst input
SetScreenerName ==
  /\ \E value \in ReportTexts : screenerName' = value
  /\ UNCHANGED comment
  /\ ReportEdit

\* onChange of the comment textarea
SetComment ==
  /\ \E value \in ReportTexts : comment' = value
  /\ UNCHANGED screenerName
  /\ ReportEdit

\* only one of the two fields required
ReportIncompleteBoth == Trim(screenerName) = <<>> /\ Trim(comment) = <<>>

\* !screenerName.trim() || !comment.trim()
ReportIncomplete == Trim(screenerName) = <<>> \/ Trim(comment) = <<>>

\* isGeneratingPdf left at true when the generation throws
GeneratingAfterKept(thrown) == thrown

\* isGeneratingPdf once the updates of a generation are applied:
\* setIsGeneratingPdf(true) before the try block, setIsGeneratingPdf(false)
\* in its finally clause
GeneratingAfter(thrown) == FALSE

\* what doc.save() writes: the analyst, the comment, the search parameters
\* and the results, as they are when the button is clicked
Report ==
  [analyst |-> screenerName, comment |-> comment, params |-> searchParams,
   results |-> matches]

\* click on the report button, which is rendered with the results and is
\* disabled while isGeneratingPdf holds.  The function has no await: it runs
\* to its end within the click event and its state updates are applied
\* together.  Building the document may throw.
generatePDF ==
  /\ hasSearched
  /\ ~isGeneratingPdf
  /\ lastCall' = "generatePDF" /\ scanned' = 0
  /\ UNCHANGED <<searchParams, hasSearched, matches, comment, screenerName,
                 persons, entities, loadingPersons, loadingEntities, fnVars>>
  /\ IF ReportIncomplete
     THEN /\ showValidationError' = TRUE
          \* the alert a timer shows 10 ms later
          /\ notice' = "fillRequired"
          /\ document' = <<>>
          /\ UNCHANGED isGeneratingPdf
     ELSE IF isGeneratingPdf
     THEN /\ showValidationError' = FALSE
          /\ notice' = "none"
          /\ document' = <<>>
          /\ UNCHANGED isGeneratingPdf
     ELSE \E thrown \in BOOLEAN :
            /\ showValidationError' = FALSE
            /\ isGeneratingPdf' = GeneratingAfter(thrown)
            /\ notice' = IF thrown THEN "technicalError" ELSE "none"
            /\ document' = IF thrown THEN <<>> ELSE <<Report>>

Next ==
  \/ FetchPersonsDone
  \/ FetchEntitiesDone
  \/ SetQuery
  \/ SetTargetType
  \/ SetFuzzyThreshold
  \/ toggleCountry
  \/ setAllCountries
  \/ handleSearch
  \/ handleReset

Spec == Init /\ [][Next]_vars

(***************************************************************************)
(* calculateSimilarity as a function of its two arguments.                 *)
(***************************************************************************)
\* longest first and second argument drawn from SimAlphabet
MaxLen1 == 2
MaxLen2 == 3
\* length of the long keys
LongLen == 40

SimAlphabet == {"a", "b", " ", "-", "e'"}
StringsUpTo(n) == UNION {[1..k -> SimAlphabet] : k \in 0..n}
Repeat(c, n) == [i \in 1..n |-> c]

\* a key of LongLen letters against the keys that differ from it in the last
\* k letters
LongPairs ==
  {<<Repeat("a", LongLen), Repeat("a", LongLen - k) \o Repeat("b", k)>> : k \in 0..LongLen}

\* most words in a name
MaxWords == 3

Words == {<<"a">>, <<"B">>, <<"b", "a">>, <<"-">>, <<"e'">>}
Orders(n) == {p \in [1..n -> 1..n] : \A i, j \in 1..n : p[i] = p[j] => i = j}

HamaBande == <<"H", "a", "m", "a", " ", "B", "a", "n", "d", "e">>
BANDEHama == <<"B", "A", "N", "D", "E", " ", "H", "a", "m", "a">>

\* a name of up to MaxWords words against the same words in another order,
\* as they are or in lowercase
WordOrderPairs ==
  UNION {UNION {{<<JoinSpace(ws), JoinSpace([i \in 1..n |-> ws[p[i]]])>>,
                 <<JoinSpace(ws), LowerCase(JoinSpace([i \in 1..n |-> ws[p[i]]]))>>} :
                ws \in [1..n -> Words], p \in Orders(n)} : n \in 2..MaxWords}
    \cup {<<HamaBande, BANDEHama>>}

SimInit ==
  /\ Mounted /\ NormIdle /\ BestIdle /\ LevIdle
  /\ simArgs \in (StringsUpTo(MaxLen1) \X StringsUpTo(MaxLen2))
                   \cup LongPairs \cup WordOrderPairs
  /\ simResult = <<>>
  /\ simSwapped = <<>>

\* the call calculateSimilarity(s1, s2) returns
SimCall ==
  /\ simResult = <<>>
  /\ simResult' = <<calculateSimilarity(simArgs[1], simArgs[2])>>
  /\ UNCHANGED <<uiVars, simArgs, simSwapped, normVars, bestVars, levVars>>

\* after it, the call calculateSimilarity(s2, s1) returns
SimCallSwapped ==
  /\ simResult # <<>>
  /\ simSwapped = <<>>
  /\ simSwapped' = <<calculateSimilarity(simArgs[2], simArgs[1])>>
  /\ UNCHANGED <<uiVars, simArgs, simResult, normVars, bestVars, levVars>>

SimNext == SimCall \/ SimCallSwapped

SpecSim == SimInit /\ [][SimNext]_vars

(***************************************************************************)
(* normalizeString as a function of its argument.                          *)
(***************************************************************************)
\* longest argument drawn from NormAlphabet
MaxNormLen == 4

NormAlphabet == {"a", "B", "1", " ", "-", "e'", "'"}

NormInit ==
  /\ Mounted /\ SimIdle /\ BestIdle /\ LevIdle
  /\ normArg \in UNION {[1..k -> NormAlphabet] : k \in 0..MaxNormLen}
  /\ normResult = <<>>
  /\ normAgain = <<>>

\* the call normalizeString(str) returns
NormCall ==
  /\ normResult = <<>>
  /\ normResult' = <<normalizeString(normArg)>>
  /\ UNCHANGED <<uiVars, normArg, normAgain, simVars, bestVars, levVars>>

\* after it, the call of normalizeString on the key it returned returns
NormCallAgain ==
  /\ normResult # <<>>
  /\ normAgain = <<>>
  /\ normAgain' = <<normalizeString(normResult[1])>>
  /\ UNCHANGED <<uiVars, normArg, normResult, simVars, bestVars, levVars>>

NormNext == NormCall \/ NormCallAgain

SpecNorm == NormInit /\ [][NormNext]_vars

(***************************************************************************)
(* getBestMatchScore as a function of its three arguments.                 *)
(***************************************************************************)
\* most aliases of a subject
MaxAliases == 2

BandeHama == <<"B", "a", "n", "d", "e", " ", "H", "a", "m", "a">>
Balobo == <<"B", "a", "l", "o", "b", "o">>

BestStrings ==
  {<<"a", "b">>, <<"a", "b", "c">>, <<"a", "b", "d">>, <<"b", " ", "a">>, <<"-">>}
BestAliasLists ==
  {undefined} \cup UNION {[1..k -> BestStrings] : k \in 0..MaxAliases}

BestInit ==
  /\ Mounted /\ SimIdle /\ NormIdle /\ LevIdle
  /\ bestArgs \in
       [query : BestStrings, name : BestStrings, aliases : BestAliasLists]
         \cup [query : {BandeHama, HamaBande}, name : {BANDEHama},
                aliases : {undefined, <<>>, <<Balobo>>, <<Balobo, HamaBande>>}]
  /\ bestResult = <<>>

\* the call getBestMatchScore(query, name, aliases) returns
BestCall ==
  /\ bestResult = <<>>
  /\ bestResult' =
       <<getBestMatchScore(bestArgs.query, bestArgs.name, bestArgs.aliases)>>
  /\ UNCHANGED <<uiVars, bestArgs, simVars, normVars, levVars>>

BestNext == BestCall

SpecBest == BestInit /\ [][BestNext]_vars

(***************************************************************************)
(* levenshteinDistance as a function of its two arguments, called on every *)
(* pair of three strings.                                                  *)
(***************************************************************************)
\* longest string drawn from LevAlphabet
MaxLevLen == 3

LevAlphabet == {"a", "b"}

LevInit ==
  /\ Mounted /\ SimIdle /\ NormIdle /\ BestIdle
  /\ levArgs \in
       LET strings == UNION {[1..k -> LevAlphabet] : k \in 0..MaxLevLen}
       IN strings \X strings \X strings
  /\ levResult = <<>>

\* the calls levenshteinDistance(levArgs[i], levArgs[j]) return
LevCalls ==
  /\ levResult = <<>>
  /\ levResult' =
       <<[i \in 1..3 |-> [j \in 1..3 |-> levenshteinDistance(levArgs[i], levArgs[j])]]>>
  /\ UNCHANGED <<uiVars, levArgs, simVars, normVars, bestVars>>

LevNext == LevCalls

SpecLev == LevInit /\ [][LevNext]_vars

(***************************************************************************)
(* One screening run: handleSearch from a state in which the lists are     *)
(* loaded and the form is filled in.                                       *)
(***************************************************************************)
\* length of the long name
ExactLen == 200

JonSmth == <<"J", "o", "n", " ", "S", "m", "t", "h">>
JohnSmith == <<"J", "o", "h", "n", " ", "S", "m", "i", "t", "h">>
SmithJohn == <<"S", "m", "i", "t", "h", " ", "J", "o", "h", "n">>

\* a name of ExactLen letters, and the same name with its last letter mistyped
LongName == Repeat("a", ExactLen)
LongNameMistyped == Repeat("a", ExactLen - 1) \o <<"b">>

RunPersons ==
  << [id |-> 1, source_country |-> "CI", full_name |-> JohnSmith, aliases |-> << >>],
     [id |-> 2, source_country |-> "BF", full_name |-> BANDEHama,
      aliases |-> <<Balobo>>] >>
LongPersons ==
  << [id |-> 1, source_country |-> "ML", full_name |-> LongName, aliases |-> << >>],
     [id |-> 2, source_country |-> "ML", full_name |-> LongNameMistyped,
      aliases |-> << >>] >>
RunEntities ==
  << [id |-> 1, source_country |-> "NE", name |-> SmithJohn,
      aliases |-> <<JonSmth>>] >>

\* lists with records that lack a name, an alias list or an alias, or hold
\* an empty one, among records that are complete
MalformedPersons ==
  << [id |-> 1, source_country |-> "CI", full_name |-> JohnSmith, aliases |-> << >>],
     [id |-> 2, source_country |-> "CI", full_name |-> << >>,
      aliases |-> <<JohnSmith>>],
     [id |-> 3, source_country |-> "BF", full_name |-> undefinedString,
      aliases |-> undefined],
     [id |-> 4, source_country |-> "BF", full_name |-> JonSmth,
      aliases |-> <<undefinedString, << >> >>],
     [id |-> 5, source_country |-> "ML", full_name |-> BANDEHama,
      aliases |-> <<Balobo>>] >>
MalformedEntities ==
  << [id |-> 1, source_country |-> "NE", name |-> << >>, aliases |-> undefined],
     [id |-> 2, source_country |-> "NE", name |-> SmithJohn,
      aliases |-> <<JonSmth>>] >>

Undefined == <<"u", "n", "d", "e", "f", "i", "n", "e", "d">>

RunQueries == {JonSmth, BandeHama, HamaBande, JohnSmith}
RunThresholds == {50, 70, 85, 100}
RunCountries == {CountryKeys, <<"CI", "ML">>}

RunInit ==
  /\ SimIdle /\ NormIdle /\ BestIdle /\ LevIdle
  /\ \/ /\ persons = RunPersons /\ entities = RunEntities
        /\ searchParams \in
             [query : RunQueries, targetType : TargetTypes,
              sourceCountries : RunCountries, fuzzyThreshold : RunThresholds]
     \/ /\ persons = LongPersons /\ entities = RunEntities
        /\ searchParams \in
             [query : {LongNameMistyped}, targetType : {"All", "Person"},
              sourceCountries : {CountryKeys}, fuzzyThreshold : {100}]
     \/ /\ persons = MalformedPersons /\ entities = MalformedEntities
        /\ searchParams \in
             [query : {JohnSmith, JonSmth, Undefined}, targetType : TargetTypes,
              sourceCountries : RunCountries, fuzzyThreshold : RunThresholds]
  /\ hasSearched = FALSE
  /\ matches = <<>>
  /\ isGeneratingPdf = FALSE
  /\ comment = <<>>
  /\ screenerName = <<>>
  /\ showValidationError = FALSE
  /\ loadingPersons = FALSE
  /\ loadingEntities = FALSE
  /\ lastCall = "edit"
  /\ notice = "none"
  /\ scanned = 0
  /\ document = <<>>

RunNext == handleSearch

SpecRun == RunInit /\ [][RunNext]_vars

(***************************************************************************)
(* The component from the moment the lists are loaded, with the report     *)
(* section: the analyst types a query, picks a target type, moves the      *)
(* slider, selects all or no lists, runs the screening, fills in the       *)
(* report fields, asks for the PDF file and resets.                        *)
(***************************************************************************)
ReportInit ==
  /\ SimIdle /\ NormIdle /\ BestIdle /\ LevIdle
  /\ searchParams = InitialSearchParams
  /\ hasSearched = FALSE
  /\ matches = <<>>
  /\ isGeneratingPdf = FALSE
  /\ comment = <<>>
  /\ screenerName = <<>>
  /\ showValidationError = FALSE
  /\ persons = PersonsA
  /\ entities = EntitiesA
  /\ loadingPersons = FALSE
  /\ loadingEntities = FALSE
  /\ lastCall = "fetch"
  /\ notice = "none"
  /\ scanned = 0
  /\ document = <<>>

ReportNext ==
  \/ SetQuery
  \/ SetTargetType
  \/ SetFuzzyThreshold
  \/ setAllCountries
  \/ handleSearch
  \/ handleReset
  \/ SetScreenerName
  \/ SetComment
  \/ generatePDF

SpecReport == ReportInit /\ [][ReportNext]_vars

(***************************************************************************)
(* Properties of the screening run.                                        *)
(***************************************************************************)
\* the last event was a run of handleSearch that went through the scan
SearchRan ==
  /\ lastCall = "handleSearch"
  /\ Trim(searchParams.query) # <<>>
  /\ Len(searchParams.sourceCountries) > 0

TypeWanted(type) == searchParams.targetType \in {"All", type}

\* the subjects that pass the country and target-type filters, as
\* [type, item] in input order: persons first, entities after them
PersonSubjects == [k \in 1..Len(persons) |-> [type |-> "Person", item |-> persons[k]]]
EntitySubjects == [k \in 1..Len(entities) |-> [type |-> "Entity", item |-> entities[k]]]
Subjects == PersonSubjects \o EntitySubjects

PassesFilters(subj) ==
  /\ TypeWanted(subj.type)
  /\ \E i \in 1..Len(searchParams.sourceCountries) :
       searchParams.sourceCountries[i] = subj.item.source_country

SubjectName(subj) == IF subj.type = "Person" THEN subj.item.full_name ELSE subj.item.name

BestScore(subj) ==
  getBestMatchScore(searchParams.query, SubjectName(subj), subj.item.aliases).score

InMatches(subj) ==
  \E i \in 1..Len(matches) : matches[i].type = subj.type /\ matches[i].item = subj.item

\* position of a match's subject in the input order
InputPos(m) ==
  CHOOSE k \in 1..Len(Subjects) : Subjects[k].type = m.type /\ Subjects[k].item = m.item

\* C1: after a screening run, a subject that passes the country and
\* target-type filters is in the result list if and only if its best-match
\* score is at least the threshold (the boundary is inclusive).
C1_ThresholdInclusive ==
  SearchRan =>
    \A k \in 1..Len(Subjects) :
      PassesFilters(Subjects[k]) =>
        (InMatches(Subjects[k]) <=> BestScore(Subjects[k]) >= searchParams.fuzzyThreshold)

\* a run in which one subject scores exactly the threshold and is listed
\* while another passes the filters and is left out
C1_Witness ==
  /\ SearchRan
  /\ \E k \in 1..Len(Subjects) :
       /\ PassesFilters(Subjects[k])
       /\ BestScore(Subjects[k]) = searchParams.fuzzyThreshold
       /\ InMatches(Subjects[k])
  /\ \E k \in 1..Len(Subjects) :
       /\ PassesFilters(Subjects[k])
       /\ ~InMatches(Subjects[k])

\* C2: every entry of the result list of a screening run is a subject whose
\* source_country is among the selected countries and whose type agrees with
\* the target type (any type when the filter is All).
C2_ResultsWithinFilters ==
  SearchRan =>
    \A i \in 1..Len(matches) :
      /\ \E k \in 1..Len(Subjects) :
           Subjects[k].type = matches[i].type /\ Subjects[k].item = matches[i].item
      /\ \E c \in 1..Len(searchParams.sourceCountries) :
           searchParams.sourceCountries[c] = matches[i].item.source_country
      /\ searchParams.targetType \in {"All", matches[i].type}

\* a run with results in which a filter keeps out a subject whose score
\* reaches the threshold
C2_Witness ==
  /\ SearchRan
  /\ matches # <<>>
  /\ \E k \in 1..Len(Subjects) :
       /\ ~PassesFilters(Subjects[k])
       /\ BestScore(Subjects[k]) >= searchParams.fuzzyThreshold

\* C3: the result list of a screening run is in descending order of score.
C3_SortedDescending ==
  SearchRan =>
    \A i \in 1..(Len(matches) - 1) : matches[i].score >= matches[i + 1].score

\* a run whose hits were found in another order than the one listed
C3_Witness ==
  /\ SearchRan
  /\ \E i, j \in 1..Len(matches) :
       i < j /\ InputPos(matches[i]) > InputPos(matches[j])

\* C4: results of equal score keep their input order (the persons sequence
\* followed by the entities sequence).
C4_StableOrder ==
  SearchRan =>
    \A i, j \in 1..Len(matches) :
      (i < j /\ matches[i].score = matches[j].score)
        => InputPos(matches[i]) < InputPos(matches[j])

\* a run with a tie between a hit and a later one, and a hit of higher score
\* moved in front of them
C4_Witness ==
  /\ SearchRan
  /\ \E i, j \in 1..Len(matches) : i < j /\ matches[i].score = matches[j].score
  /\ \E i, j \in 1..Len(matches) :
       i < j /\ InputPos(matches[i]) > InputPos(matches[j])

\* C5: a screening run with a non-blank query and no country selected shows
\* the "select at least one list" message, scans no subject and leaves
\* matches and hasSearched as they were, whereas a run that goes through the
\* scan shows no message.
C5_NoListsSelected ==
  [][ /\ (lastCall' = "handleSearch" /\ Trim(searchParams'.query) # <<>>
            /\ Len(searchParams'.sourceCountries) = 0)
          => (notice' = "selectAtLeastOne" /\ scanned' = 0
                /\ matches' = matches /\ hasSearched' = hasSearched)
      /\ (lastCall' = "handleSearch" /\ Trim(searchParams'.query) # <<>>
            /\ Len(searchParams'.sourceCountries) > 0)
          => (notice' = "none" /\ hasSearched')
    ]_vars

\* a run with no country selected, before any search has produced results
C5_Witness ==
  /\ lastCall = "handleSearch"
  /\ Trim(searchParams.query) # <<>>
  /\ Len(searchParams.sourceCountries) = 0
  /\ notice = "selectAtLeastOne"
  /\ ~hasSearched

\* C6: a submitted query that is empty or whitespace-only is rejected before
\* any subject is scanned, the rejection is shown to the user, and matches and
\* hasSearched stay as they were.
C6_BlankQuerySurfaced ==
  [][ (lastCall' \in {"handleSearch", "invalidSubmit"} /\ Trim(searchParams'.query) = <<>>)
        => (scanned' = 0 /\ notice' # "none"
              /\ matches' = matches /\ hasSearched' = hasSearched)
    ]_vars

\* C7: a screening run with a non-blank query and a country selected in which
\* no subject that passes the filters reaches the threshold ends with an
\* empty result list, hasSearched true and no message.
C7_NoHitIsEmptyList ==
  (SearchRan /\ \A k \in 1..Len(Subjects) :
                  PassesFilters(Subjects[k])
                    => BestScore(Subjects[k]) < searchParams.fuzzyThreshold)
    => (matches = <<>> /\ hasSearched /\ notice = "none")

\* a run in which subjects were scanned and none reached the threshold
C7_Witness ==
  /\ SearchRan
  /\ scanned > 0
  /\ \A k \in 1..Len(Subjects) :
       PassesFilters(Subjects[k]) => BestScore(Subjects[k]) < searchParams.fuzzyThreshold
  /\ matches = <<>>
  /\ hasSearched

\* C22: a run of handleSearch, whether it scans or is rejected, leaves the
\* persons and the entities sequences as they were: the same records with
\* the same fields in the same order.
C22_SubjectsUntouched ==
  [][ lastCall' \in {"handleSearch", "invalidSubmit"}
        => (persons' = persons /\ entities' = entities) ]_vars

\* a run at a threshold other than the initial one that listed its hits in
\* another order than the one of the lists, which are as they were fetched
C22_Witness ==
  /\ SearchRan
  /\ searchParams.fuzzyThreshold # InitialSearchParams.fuzzyThreshold
  /\ \E i, j \in 1..Len(matches) :
       i < j /\ InputPos(matches[i]) > InputPos(matches[j])
  /\ persons \in PersonLists /\ entities \in EntityLists

(***************************************************************************)
(* Properties of calculateSimilarity.                                      *)
(***************************************************************************)
SimDone == simResult # <<>>
Key1 == normalizeString(simArgs[1])
Key2 == normalizeString(simArgs[2])

\* C8: calculateSimilarity returns an integer between 0 and 100.
C8_ScoreInRange == SimDone => simResult[1] \in 0..100

\* a call on two different non-empty keys that returns a score strictly
\* between the two ends of the range
C8_Witness ==
  /\ SimDone
  /\ Key1 # <<>> /\ Key2 # <<>> /\ Key1 # Key2
  /\ simResult[1] > 0 /\ simResult[1] < 100

\* C9: on two different non-empty keys, calculateSimilarity returns
\* (1 - distance/max_len) * 100 rounded to the nearest integer, halves up:
\* floor((200 * (max_len - distance) + max_len) / (2 * max_len)).
C9_RoundHalfUp ==
  (SimDone /\ Key1 # <<>> /\ Key2 # <<>> /\ Key1 # Key2) =>
    LET distance == levenshteinDistance(Key1, Key2)
        max_len == IF Len(Key1) >= Len(Key2) THEN Len(Key1) ELSE Len(Key2)
    IN simResult[1] = (200 * (max_len - distance) + max_len) \div (2 * max_len)

\* C10: if either argument normalizes to the empty key, calculateSimilarity
\* returns 0, also when both do.
C10_EmptyKeyScoresZero ==
  (SimDone /\ (Key1 = <<>> \/ Key2 = <<>>)) => simResult[1] = 0

\* a call on two non-empty strings that both normalize to the empty key
C10_Witness ==
  /\ SimDone
  /\ simArgs[1] # <<>> /\ simArgs[2] # <<>>
  /\ Key1 = <<>> /\ Key2 = <<>>
  /\ simResult[1] = 0

\* C11 as stated: for every non-empty string s, calculateSimilarity(s, s)
\* returns 100.
C11_SelfSimilarity ==
  (SimDone /\ simArgs[1] = simArgs[2] /\ simArgs[1] # <<>>) => simResult[1] = 100

\* C11: for every string s whose normalized key is not empty,
\* calculateSimilarity(s, s) returns 100.
C11_SelfSimilarityOfKey ==
  (SimDone /\ simArgs[1] = simArgs[2] /\ Key1 # <<>>) => simResult[1] = 100

\* a call on twice the same string, which is not its own key
C11_Witness ==
  /\ SimDone
  /\ simArgs[1] = simArgs[2]
  /\ Key1 # <<>> /\ Key1 # simArgs[1]
  /\ simResult[1] = 100

\* C12: calculateSimilarity(a, b) and calculateSimilarity(b, a) return the
\* same score.
C12_Symmetric == simSwapped # <<>> => simSwapped[1] = simResult[1]

\* both calls made on keys of different lengths that are neither equal nor
\* entirely different
C12_Witness ==
  /\ simSwapped # <<>>
  /\ Len(Key1) # Len(Key2)
  /\ simResult[1] > 0 /\ simResult[1] < 100
  /\ simSwapped[1] = simResult[1]

\* C13: normalizeString applied to a key it returned returns that key.
C13_Idempotent == normAgain # <<>> => normAgain[1] = normResult[1]

\* both calls made, the first on a string that is not its own key and that
\* has several words
C13_Witness ==
  /\ normAgain # <<>>
  /\ normResult[1] # normArg
  /\ \E i \in 1..Len(normResult[1]) : normResult[1][i] = " "
  /\ normAgain[1] = normResult[1]

\* C24: the key normalizeString returns is made of lowercase ASCII letters,
\* digits and single spaces only, with no space at either end, its tokens
\* are in non-decreasing order, and it is empty exactly when the argument
\* holds no ASCII letter or digit once its accents are folded.
C24_KeyShape ==
  normResult # <<>> =>
    LET key == normResult[1]
        tokens == SplitWhitespace(key)
    IN /\ \A i \in 1..Len(key) : key[i] \in Lower \cup Digit \cup {" "}
       /\ key # <<>> => (key[1] # " " /\ key[Len(key)] # " ")
       /\ \A i \in 1..(Len(key) - 1) : ~(key[i] = " " /\ key[i + 1] = " ")
       /\ \A k \in 1..(Len(tokens) - 1) : ~StrLess(tokens[k + 1], tokens[k])
       /\ key = <<>>
            <=> \A i \in 1..Len(normArg) :
                  Decompose(normArg[i])[1] \notin Lower \cup Upper \cup Digit

\* a call on a string that starts with white space and has an uppercase
\* word in front of a word that sorts before it
C24_Witness ==
  /\ normResult # <<>>
  /\ normArg # <<>> /\ normArg[1] = " "
  /\ \E i \in 1..Len(normArg) : normArg[i] \in Upper
  /\ Len(SplitWhitespace(normResult[1])) = 2
  /\ normResult[1] # LowerCase(Trim(normArg))

\* the whitespace-separated words of a string, in lowercase
WordsOf(s) == LET ws == SplitWhitespace(Trim(s)) IN [i \in 1..Len(ws) |-> LowerCase(ws[i])]
Occurrences(ws, w) == Cardinality({i \in 1..Len(ws) : ws[i] = w})

\* the two strings are made of the same words up to case, each as often
SameWords(s1, s2) ==
  /\ Len(WordsOf(s1)) = Len(WordsOf(s2))
  /\ \A i \in 1..Len(WordsOf(s1)) :
       Occurrences(WordsOf(s1), WordsOf(s1)[i]) = Occurrences(WordsOf(s2), WordsOf(s1)[i])

\* C14: two strings made of the same whitespace-separated words up to case,
\* in whatever order, have the same normalized key, and their similarity is
\* 100 when that key is not empty; "Hama Bande" against "BANDE Hama" scores 100.
C14_WordOrderInsensitive ==
  /\ (SimDone /\ SameWords(simArgs[1], simArgs[2]))
       => (Key1 = Key2 /\ (Key1 # <<>> => simResult[1] = 100))
  /\ (SimDone /\ simArgs = <<HamaBande, BANDEHama>>) => simResult[1] = 100

\* the call on "Hama Bande" and "BANDE Hama": the same words, in another order
C14_Witness ==
  /\ SimDone
  /\ simArgs = <<HamaBande, BANDEHama>>
  /\ SameWords(simArgs[1], simArgs[2])
  /\ WordsOf(simArgs[1]) # WordsOf(simArgs[2])
  /\ simResult[1] = 100

(***************************************************************************)
(* Properties of getBestMatchScore.                                        *)
(***************************************************************************)
BestDone == bestResult # <<>>
HasAliases == bestArgs.aliases # undefined /\ bestArgs.aliases # <<>>
NameScore == calculateSimilarity(bestArgs.query, bestArgs.name)
AliasScores ==
  {calculateSimilarity(bestArgs.query, bestArgs.aliases[i]) :
     i \in 1..Len(bestArgs.aliases)}
Greatest(S) == CHOOSE x \in S : \A y \in S : y <= x

\* C15: the score getBestMatchScore returns is the greatest of the
\* similarities of the query to the name and to each alias; when the alias
\* list is empty or missing it is the similarity of the query to the name.
C15_ScoreIsMaximum ==
  BestDone =>
    IF HasAliases
    THEN bestResult[1].score = Greatest({NameScore} \cup AliasScores)
    ELSE bestResult[1].score = NameScore

\* a call in which the second of two aliases alone scores best, above the
\* name and above zero
C15_Witness ==
  /\ BestDone
  /\ HasAliases /\ Len(bestArgs.aliases) = 2
  /\ calculateSimilarity(bestArgs.query, bestArgs.aliases[2])
       > calculateSimilarity(bestArgs.query, bestArgs.aliases[1])
  /\ calculateSimilarity(bestArgs.query, bestArgs.aliases[2]) > NameScore
  /\ NameScore > 0
  /\ bestResult[1].score = calculateSimilarity(bestArgs.query, bestArgs.aliases[2])

\* C16: matchedOn is "Alias" exactly when there are aliases and the best
\* alias score is strictly greater than the name score; when the key of the
\* query is the (non-empty) key of the name the result is score 100 matched
\* on "Name", as for name "BANDE Hama", aliases ["Balobo"], query
\* "Bande Hama".
C16_AliasOnlyIfStrictlyBetter ==
  BestDone =>
    /\ bestResult[1].matchedOn = "Alias"
         <=> (HasAliases /\ Greatest(AliasScores) > NameScore)
    /\ bestResult[1].matchedOn \in {"Alias", "Name"}
    /\ (normalizeString(bestArgs.query) = normalizeString(bestArgs.name)
          /\ normalizeString(bestArgs.query) # <<>>)
         => bestResult[1] = [score |-> 100, matchedOn |-> "Name"]
    /\ bestArgs = [query |-> BandeHama, name |-> BANDEHama, aliases |-> <<Balobo>>]
         => bestResult[1] = [score |-> 100, matchedOn |-> "Name"]

\* a call in which the best alias ties with the name at a score strictly
\* between 0 and 100 and the name is reported
C16_Witness ==
  /\ BestDone
  /\ HasAliases
  /\ Greatest(AliasScores) = NameScore
  /\ NameScore > 0 /\ NameScore < 100
  /\ bestResult[1].matchedOn = "Name"

(***************************************************************************)
(* Properties of levenshteinDistance.                                      *)
(***************************************************************************)
LevDone == levResult # <<>>

\* C19: levenshteinDistance(a, b) = levenshteinDistance(b, a) for all
\* strings a and b.
C19_DistanceSymmetric ==
  LevDone => \A i, j \in 1..3 : levResult[1][i][j] = levResult[1][j][i]

\* the calls made on two strings of different lengths, one of which is not
\* a part of the other
C19_Witness ==
  /\ LevDone
  /\ Len(levArgs[1]) < Len(levArgs[2])
  /\ levResult[1][1][2] > Len(levArgs[2]) - Len(levArgs[1])
  /\ levResult[1][1][2] = levResult[1][2][1]

\* C20: levenshteinDistance(a, c) <= levenshteinDistance(a, b) +
\* levenshteinDistance(b, c) for all strings a, b and c.
C20_TriangleInequality ==
  LevDone =>
    \A i, j, k \in 1..3 :
      levResult[1][i][k] <= levResult[1][i][j] + levResult[1][j][k]

\* the calls made on three different strings, with the distance from the
\* first to the third equal to the sum of the two others
C20_Witness ==
  /\ LevDone
  /\ levResult[1][1][2] > 0 /\ levResult[1][2][3] > 0
  /\ levResult[1][1][3] = levResult[1][1][2] + levResult[1][2][3]
  /\ Len(levArgs[1]) = Len(levArgs[3])

\* C21: levenshteinDistance(s, s) = 0 for every string s, and the distance
\* between the empty string and s, in either order, is the length of s.
C21_BoundaryValues ==
  LevDone =>
    \A i, j \in 1..3 :
      /\ levArgs[i] = levArgs[j] => levResult[1][i][j] = 0
      /\ levArgs[i] = <<>>
           => (levResult[1][i][j] = Len(levArgs[j]) /\ levResult[1][j][i] = Len(levArgs[j]))

\* the calls made on the empty string, a string of the greatest length and
\* that string again
C21_Witness ==
  /\ LevDone
  /\ levArgs[1] = <<>>
  /\ Len(levArgs[2]) = MaxLevLen
  /\ levArgs[3] = levArgs[2]
  /\ levResult[1][1][2] = MaxLevLen /\ levResult[1][2][1] = MaxLevLen
  /\ levResult[1][2][3] = 0

\* the strings one insertion, one deletion or one substitution away from s;
\* the characters put in are those of LevAlphabet and no string grows beyond
\* MaxLevLen + 1 characters
OneEdit(s) ==
  {SubSeq(s, 1, i - 1) \o SubSeq(s, i + 1, Len(s)) : i \in 1..Len(s)}
    \cup {[s EXCEPT ![i] = c] : i \in 1..Len(s), c \in LevAlphabet}
    \cup (IF Len(s) > MaxLevLen THEN {}
          ELSE {SubSeq(s, 1, i) \o <<c>> \o SubSeq(s, i + 1, Len(s)) :
                  i \in 0..Len(s), c \in LevAlphabet})

\* the number of rounds of edits after which b is among the strings reached
RECURSIVE EditsUntil(_, _, _)
EditsUntil(reached, b, k) ==
  IF b \in reached THEN k
  ELSE EditsUntil(reached \cup UNION {OneEdit(s) : s \in reached}, b, k + 1)

\* the least number of edits that turn a into b
MinEdits(a, b) == EditsUntil({a}, b, 0)

\* the recursive definition of the Levenshtein distance
RECURSIVE RefDistance(_, _)
RefDistance(a, b) ==
  IF a = <<>> THEN Len(b)
  ELSE IF b = <<>> THEN Len(a)
  ELSE IF Head(a) = Head(b) THEN RefDistance(Tail(a), Tail(b))
  ELSE 1 + Min2(RefDistance(Tail(a), b),
                Min2(RefDistance(a, Tail(b)), RefDistance(Tail(a), Tail(b))))

\* C23: levenshteinDistance(a, b) is the least number of insertions,
\* deletions and substitutions of one character that turn a into b, and it
\* is the value of the recursive definition of the Levenshtein distance.
C23_IsLevenshtein ==
  LevDone =>
    \A i, j \in 1..3 :
      /\ levResult[1][i][j] = MinEdits(levArgs[i], levArgs[j])
      /\ levResult[1][i][j] = RefDistance(levArgs[i], levArgs[j])

\* the calls made on a string and a longer one that is reached from it by
\* an insertion together with substitutions, and by nothing shorter
C23_Witness ==
  /\ LevDone
  /\ Len(levArgs[1]) + 1 = Len(levArgs[2])
  /\ levResult[1][1][2] = MaxLevLen
  /\ MinEdits(levArgs[1], levArgs[2]) = MaxLevLen

(***************************************************************************)
(* Properties of one screening run.                                        *)
(***************************************************************************)
\* the key of the query is the key of the name or of an alias of the subject
ExactMatch(subj) ==
  \/ normalizeString(SubjectName(subj)) = normalizeString(searchParams.query)
  \/ \E k \in 1..Len(subj.item.aliases) :
       normalizeString(subj.item.aliases[k]) = normalizeString(searchParams.query)

\* a name or an alias that is missing or empty
EmptyField(f) == f = undefinedString \/ f = <<>>

\* the fields of a subject a query is compared with: its name and the
\* entries of its alias list, if it has one
FieldsOf(subj) ==
  {SubjectName(subj)}
    \cup (IF subj.item.aliases = undefined THEN {}
          ELSE {subj.item.aliases[k] : k \in 1..Len(subj.item.aliases)})

Malformed(subj) ==
  subj.item.aliases = undefined \/ \E f \in FieldsOf(subj) : EmptyField(f)

\* the greatest similarity of the query to a field, an empty field counting 0
ExpectedScore(subj) ==
  Greatest({IF EmptyField(f) THEN 0 ELSE calculateSimilarity(searchParams.query, f) :
              f \in FieldsOf(subj)})

\* C25: a run over lists with malformed subjects (name empty or missing,
\* alias list missing, alias empty or missing) ends like any other: every
\* subject that passes the filters is scanned, a malformed subject is listed
\* exactly when the greatest score of its fields, 0 for an empty one,
\* reaches the threshold, and with that score, and the other subjects are
\* listed with the scores and in the order of a run without the malformed
\* ones.
C25_MalformedSubjectIsLocal ==
  SearchRan =>
    /\ hasSearched /\ notice = "none"
    /\ scanned = Cardinality({k \in 1..Len(Subjects) : PassesFilters(Subjects[k])})
    /\ \A k \in 1..Len(Subjects) :
         (Malformed(Subjects[k]) /\ PassesFilters(Subjects[k])) =>
           /\ InMatches(Subjects[k])
                <=> ExpectedScore(Subjects[k]) >= searchParams.fuzzyThreshold
           /\ \A i \in 1..Len(matches) :
                (matches[i].type = Subjects[k].type /\ matches[i].item = Subjects[k].item)
                  => matches[i].score = ExpectedScore(Subjects[k])
    /\ SelectSeq(matches, LAMBDA m : ~Malformed(m))
         = SortByScore(ScanResults(searchParams,
                                   SelectSeq(persons, LAMBDA p : ~Malformed([type |-> "Person", item |-> p])),
                                   SelectSeq(entities, LAMBDA e : ~Malformed([type |-> "Entity", item |-> e]))))

\* a run that lists a subject without a name on its alias, between two
\* complete subjects, and leaves out a malformed subject it scanned
C25_Witness ==
  /\ SearchRan
  /\ \E i \in 2..(Len(matches) - 1) :
       /\ EmptyField(SubjectName(matches[i]))
       /\ matches[i].matchedOn = "Alias"
       /\ ~Malformed(matches[i - 1]) /\ ~Malformed(matches[i + 1])
  /\ \E k \in 1..Len(Subjects) :
       /\ Malformed(Subjects[k]) /\ Subjects[k].item.aliases = undefined
       /\ PassesFilters(Subjects[k]) /\ ~InMatches(Subjects[k])

\* C17: a screening run with threshold 100 returns a subject only if the
\* normalized key of its name or of one of its aliases is equal to the
\* normalized key of the query.
C17_HundredMeansExact ==
  (SearchRan /\ searchParams.fuzzyThreshold = 100) =>
    \A i \in 1..Len(matches) : ExactMatch(matches[i])

\* C18: in a screening run with query "Jon Smth" and threshold 70, a subject
\* named "John Smith" without aliases that passes the filters is at a nonzero
\* edit distance from the query, and is in the results with a score between
\* 70 and 90.
C18_TypoIsIncluded ==
  (SearchRan /\ searchParams.query = JonSmth /\ searchParams.fuzzyThreshold = 70) =>
    \A k \in 1..Len(Subjects) :
      (/\ SubjectName(Subjects[k]) = JohnSmith
       /\ Subjects[k].item.aliases = <<>>
       /\ PassesFilters(Subjects[k]))
      => /\ levenshteinDistance(normalizeString(JonSmth), normalizeString(JohnSmith)) > 0
         /\ \E i \in 1..Len(matches) :
              /\ matches[i].type = Subjects[k].type
              /\ matches[i].item = Subjects[k].item
              /\ matches[i].score \in 70..90

\* such a run, with the person John Smith in the results on its name
C18_Witness ==
  /\ SearchRan
  /\ searchParams.query = JonSmth /\ searchParams.fuzzyThreshold = 70
  /\ \E i \in 1..Len(matches) :
       /\ matches[i].type = "Person"
       /\ matches[i].item.full_name = JohnSmith
       /\ matches[i].item.aliases = <<>>
       /\ matches[i].matchedOn = "Name"
       /\ matches[i].score \in 70..90

\* what handleSearch stores when it runs with the threshold at t and the rest
\* of the form, and the lists, as they are
ResultsAt(t) ==
  SortByScore(ScanResults([searchParams EXCEPT !.fuzzyThreshold = t], persons, entities))

\* C27: with the same query, filters and lists, the result list of a run at
\* a threshold t2 at or above the threshold of this run is the result list
\* of this run without the entries of score below t2, in the same order.
C27_RaisingThresholdOnlyRemoves ==
  SearchRan =>
    \A t2 \in RunThresholds :
      t2 >= searchParams.fuzzyThreshold
        => ResultsAt(t2) = SelectSeq(matches, LAMBDA m : m.score >= t2)

\* a run with several results, of which a higher threshold keeps some and
\* removes others
C27_Witness ==
  /\ SearchRan
  /\ \E t2 \in RunThresholds :
       /\ t2 > searchParams.fuzzyThreshold
       /\ ResultsAt(t2) # <<>>
       /\ Len(ResultsAt(t2)) < Len(matches)
       /\ \E i \in 1..Len(matches) : matches[i].score < t2

(***************************************************************************)
(* Properties of the component with its report section.                    *)
(***************************************************************************)
\* every entry of `results` reaches the threshold of `params`, is of a
\* selected list and of the target type
ProducedWith(results, params) ==
  \A i \in 1..Len(results) :
    /\ results[i].score >= params.fuzzyThreshold
    /\ \E c \in 1..Len(params.sourceCountries) :
         params.sourceCountries[c] = results[i].item.source_country
    /\ params.targetType \in {"All", results[i].type}

\* C26: whenever results are shown, every stored match reaches the current
\* threshold, is of a currently selected list and of the current target
\* type, and so do the matches of a saved report with respect to the
\* search parameters printed in it.
C26_ResultsAreCurrent ==
  /\ hasSearched => ProducedWith(matches, searchParams)
  /\ document # <<>> => ProducedWith(document[1].results, document[1].params)

\* C28: after handleReset the form is as at mount (query empty, target All,
\* every list selected, threshold 70), hasSearched is false, matches, comment
\* and screenerName are empty and showValidationError is false.
C28_ResetRestoresInitialState ==
  lastCall = "handleReset" =>
    /\ searchParams =
         [query |-> <<>>, targetType |-> "All",
          sourceCountries |-> <<"CI", "BF", "ML", "NE">>, fuzzyThreshold |-> 70]
    /\ hasSearched = FALSE
    /\ matches = <<>>
    /\ comment = <<>>
    /\ screenerName = <<>>
    /\ showValidationError = FALSE

\* the state handleReset leaves, with the lists still loaded
C28_Witness ==
  /\ lastCall = "handleReset"
  /\ searchParams.query = <<>> /\ ~hasSearched /\ matches = <<>>
  /\ comment = <<>> /\ screenerName = <<>> /\ ~showValidationError
  /\ persons # <<>> /\ entities # <<>>

\* C29: a run of handleSearch that scans (query not blank, a list selected)
\* empties the analyst name and the comment and lowers the validation-error
\* flag; a rejected run (blank query or no list selected) leaves them, and
\* matches and hasSearched, as they were; and no step changes matches
\* without emptying the two fields, so that what they hold was typed after
\* the stored matches were produced.
C29_RunClearsReportFields ==
  [][ /\ (lastCall' = "handleSearch" /\ Trim(searchParams'.query) # <<>>
            /\ Len(searchParams'.sourceCountries) > 0)
          => (screenerName' = <<>> /\ comment' = <<>> /\ showValidationError' = FALSE)
      /\ (lastCall' \in {"handleSearch", "invalidSubmit"}
            /\ (Trim(searchParams'.query) = <<>> \/ Len(searchParams'.sourceCountries) = 0))
          => (screenerName' = screenerName /\ comment' = comment
                /\ showValidationError' = showValidationError
                /\ matches' = matches /\ hasSearched' = hasSearched)
      /\ matches' # matches => (screenerName' = <<>> /\ comment' = <<>>)
    ]_vars

\* a rejected run that left both fields filled in, the error flag raised
\* and the results of the run before it
C29_Witness ==
  /\ lastCall = "handleSearch"
  /\ notice = "selectAtLeastOne"
  /\ hasSearched /\ matches # <<>>
  /\ Trim(screenerName) # <<>> /\ Trim(comment) # <<>>
  /\ showValidationError

\* C30: a call of generatePDF with the analyst name or the comment blank
\* after trimming raises showValidationError and saves no document; a
\* document is saved only with both filled in; and after every call, also
\* one in which building the document threw, isGeneratingPdf is false.
C30_ReportNeedsBothFields ==
  lastCall = "generatePDF" =>
    /\ isGeneratingPdf = FALSE
    /\ (Trim(screenerName) = <<>> \/ Trim(comment) = <<>>)
         => (showValidationError /\ document = <<>>)
    /\ document # <<>> => (Trim(screenerName) # <<>> /\ Trim(comment) # <<>>)
    /\ notice = "technicalError" => document = <<>>

\* a call with the analyst name filled in and a comment of white space
C30_Witness ==
  /\ lastCall = "generatePDF"
  /\ Trim(screenerName) # <<>>
  /\ comment # <<>> /\ Trim(comment) = <<>>
  /\ showValidationError
  /\ document = <<>>
  /\ ~isGeneratingPdf

====
